---- MODULE Spec2Model ----
(***************************************************************************)
(* Model of flare/gp.py: the GaussianProcess class.                        *)
(*                                                                         *)
(* The numerical collaborators (kernels, covariance builders, likelihood   *)
(* evaluator, numpy/scipy linear algebra, scipy.optimize.minimize) are     *)
(* modelled as uninterpreted terms: a value records the function that      *)
(* produced it and the arguments it was applied to, so two values are      *)
(* equal exactly when they were computed the same way from equal inputs.   *)
(* A call that can raise takes its outcome from an explicit oracle         *)
(* argument, chosen nondeterministically by the action that makes it.      *)
(***************************************************************************)
EXTENDS Integers, Sequences, FiniteSets, TLC

\* ------------------------------------------------------------- bounds
\* Largest number of training entries the model lets the training set grow to.
MaxEntries == 2

\* ------------------------------------------------------------- values
\* Python's None, for every attribute that can hold it.
None == [tag |-> "None"]

\* np.array(None): a 0-dimensional object array holding None. It is not None,
\* and it has no len().
NoneArray == [tag |-> "ndarray0d", item |-> None]

\* np.array(v) of None or of an array (a copy, equal to v).
NpArray(v) == IF v = None THEN NoneArray ELSE v

\* The hyperparameter vectors the optimizer moves between.
Hyps == {<<1>>, <<2>>}

\* The atoms of the one structure handed to update_db (struc.positions).
Atoms == {1, 2}

\* AtomicEnvironment(struc, atom, cutoffs), by identity.
AtomicEnvironment(atom) == [env |-> atom]
Envs == {AtomicEnvironment(a) : a \in Atoms}

\* The forces list handed to update_db: one 3-vector per atom.
StrucForces == [a \in Atoms |-> <<10 * a + 1, 10 * a + 2, 10 * a + 3>>]

\* custom_range arguments of update_db; () selects every atom.
CustomRanges == {<<>>, <<1>>, <<2>>, <<2, 1>>}

\* Values of opt_algorithm handed to the constructor.
Algos == {"L-BFGS-B", "BFGS", "nelder-mead", "other"}

\* custom_bounds arguments of train (None or an array of bounds, by identity).
CustomBounds == {"None", "custom"}

\* ------------------------------------------------------------- kernels
\* A force component (x, d) of an environment, as a number: distinct
\* components get distinct numbers.
CompCode(x, d) == 3 * (x.env - 1) + d

\* self.kernel(x1, x2, d1, d2, hyps, cutoffs), as a number that identifies
\* its arguments: symmetric under exchanging (x1, d1) with (x2, d2), as the
\* kernel interface requires, and different for different hyperparameters
\* and for different unordered pairs of components.
Kernel(x1, x2, d1, d2, h) ==
    LET a == CompCode(x1, d1)
        b == CompCode(x2, d2)
    IN  1000 * h[1] + (IF a <= b THEN 10 * a + b ELSE 10 * b + a)

\* A diagonal entry of the covariance matrix: kernel value plus sigma_n^2, the
\* noise term of the hyperparameters the kernel value was computed with.
WithNoise(k) == k + 100 * (k \div 1000)

Ds == <<1, 2, 3>>

\* Python's int(math.floor(m_index / 3)) and m_index % 3 for the 0-based
\* m_index = i - 1 of a 1-based index i.
EntryOf(i) == ((i - 1) \div 3) + 1
CompOf(i) == Ds[((i - 1) % 3) + 1]

\* ------------------------------------------------------------- linear algebra
\* len(self.training_data) * 3
Size(td) == 3 * Len(td)

\* The covariance matrix over a training set: entry (i, j) is the kernel
\* between component CompOf(i) of entry EntryOf(i) and component CompOf(j) of
\* entry EntryOf(j), plus the noise term on the diagonal.
KyMat(h, td) ==
    [tag |-> "ndarray",
     rows |-> [i \in 1..Size(td) |-> [j \in 1..Size(td) |->
                 LET k == Kernel(td[EntryOf(i)], td[EntryOf(j)], CompOf(i), CompOf(j), h)
                 IN  IF i = j THEN WithNoise(k) ELSE k]]]

\* The covariance builder chosen by set_L_alpha from multihyps and par.
Builder(multihyps, isPar) ==
    IF multihyps
    THEN (IF isPar THEN "get_ky_and_multihyp_par" ELSE "get_ky_and_multihyp")
    ELSE (IF isPar THEN "get_ky_and_hyp_par" ELSE "get_ky_and_hyp")

\* get_ky_and_hyp and its variants: (hyp_mat, ky_mat).
get_ky_and_hyp(builder, h, mask, td, labels_np) ==
    [hyp_mat |-> [tag |-> "hyp_mat", by |-> builder, hyps |-> h, mask |-> mask,
                  training_data |-> td],
     ky_mat |-> KyMat(h, td)]

\* get_like_grad_from_mats(ky_mat, hyp_mat, training_labels_np): (like, like_grad).
get_like_grad_from_mats(ky, hyp_mat, labels_np) ==
    [like |-> [tag |-> "like", ky_mat |-> ky, labels |-> labels_np],
     like_grad |-> [tag |-> "like_grad", hyp_mat |-> hyp_mat, labels |-> labels_np]]

\* np.linalg.cholesky, np.linalg.inv, l_mat_inv.T @ l_mat_inv, np.matmul.
Cholesky(m) == [tag |-> "cholesky", of |-> m]
Inv(m) == [tag |-> "inv", of |-> m]
TransposeTimes(m) == [tag |-> "T@", of |-> m]
Matmul(a, b, n) == [tag |-> "matmul", a |-> a, b |-> b, len |-> n]

\* Number of rows of a covariance matrix.
Dim(m) == Len(m.rows)

\* len(self.alpha) of a non-null alpha.
LenAlpha(a) == a.len

\* ------------------------------------------------------------- model state
VARIABLES
    hyps, algo, bounds, multihyps, hyps_mask, par, per_atom_par,
    training_data, training_labels, training_labels_np,
    ky_mat, l_mat, alpha, ky_mat_inv, l_mat_inv,
    likelihood, likelihood_gradient,
    call

gp_vars == <<hyps, algo, bounds, multihyps, hyps_mask, par, per_atom_par,
             training_data, training_labels, training_labels_np,
             ky_mat, l_mat, alpha, ky_mat_inv, l_mat_inv,
             likelihood, likelihood_gradient>>

vars == <<gp_vars, call>>

\* The instance as one value, for the methods below to transform.
Self ==
    [hyps |-> hyps, algo |-> algo, bounds |-> bounds, multihyps |-> multihyps,
     hyps_mask |-> hyps_mask, par |-> par, per_atom_par |-> per_atom_par,
     training_data |-> training_data, training_labels |-> training_labels,
     training_labels_np |-> training_labels_np,
     ky_mat |-> ky_mat, l_mat |-> l_mat, alpha |-> alpha,
     ky_mat_inv |-> ky_mat_inv, l_mat_inv |-> l_mat_inv,
     likelihood |-> likelihood, likelihood_gradient |-> likelihood_gradient]

\* The instance after a method has run.
Store(s) ==
    /\ hyps' = s.hyps
    /\ algo' = s.algo
    /\ bounds' = s.bounds
    /\ multihyps' = s.multihyps
    /\ hyps_mask' = s.hyps_mask
    /\ par' = s.par
    /\ per_atom_par' = s.per_atom_par
    /\ training_data' = s.training_data
    /\ training_labels' = s.training_labels
    /\ training_labels_np' = s.training_labels_np
    /\ ky_mat' = s.ky_mat
    /\ l_mat' = s.l_mat
    /\ alpha' = s.alpha
    /\ ky_mat_inv' = s.ky_mat_inv
    /\ l_mat_inv' = s.l_mat_inv
    /\ likelihood' = s.likelihood
    /\ likelihood_gradient' = s.likelihood_gradient

\* What a method call did: the instance it left and the exception it raised
\* ("None" when it returned normally).
Outcome(s, exc) == [self |-> s, exc |-> exc]

\* ------------------------------------------------------------- TrainingSet
RECURSIVE force_list_to_np(_)
force_list_to_np(forces) ==
    IF forces = <<>> THEN <<>>
    ELSE Head(forces) \o force_list_to_np(Tail(forces))

RECURSIVE AppendAtoms(_, _, _)
\* The loop of update_db over update_indices.
AppendAtoms(s, forces, update_indices) ==
    IF update_indices = <<>> THEN s
    ELSE LET atom == Head(update_indices)
             env_curr == AtomicEnvironment(atom)
             forces_curr == forces[atom]
         IN  AppendAtoms([s EXCEPT !.training_data = Append(@, env_curr),
                                   !.training_labels = Append(@, forces_curr)],
                         forces, Tail(update_indices))

\* range(noa) as a list of atom indices.
RangeNoa == <<1, 2>>

\* update_db without the final refresh of training_labels_np.
update_db_stale_np(s, forces, custom_range) ==
    LET update_indices == IF custom_range # <<>> THEN custom_range ELSE RangeNoa
    IN  AppendAtoms(s, forces, update_indices)

update_db(s, forces, custom_range) ==
    LET update_indices == IF custom_range # <<>> THEN custom_range ELSE RangeNoa
        grown == AppendAtoms(s, forces, update_indices)
    IN  [grown EXCEPT !.training_labels_np = force_list_to_np(grown.training_labels)]

\* ------------------------------------------------------------- FactorizationCache
\* Where a set_L_alpha / update_L_alpha call may raise: in the covariance
\* build, in the likelihood evaluation, or in the Cholesky factorization.
SetFails == {"none", "build", "like", "cholesky"}
UpdateFails == {"none", "build", "cholesky"}

\* The exception raised at each failure point.
RaisedAt(fail) ==
    CASE fail = "build" -> "BuilderError"
      [] fail = "like" -> "LikelihoodError"
      [] fail = "cholesky" -> "LinAlgError"
      [] OTHER -> "None"

\* set_L_alpha storing ky_mat as soon as it is built, before the steps that
\* can still raise.
set_L_alpha_eager(s, fail) ==
    LET built == get_ky_and_hyp(Builder(s.multihyps, s.par), s.hyps, s.hyps_mask,
                                s.training_data, s.training_labels_np)
        ky == built.ky_mat
        lg == get_like_grad_from_mats(ky, built.hyp_mat, s.training_labels_np)
        l == Cholesky(ky)
        linv == Inv(l)
        kyinv == TransposeTimes(linv)
        a == Matmul(kyinv, s.training_labels_np, Dim(ky))
    IN  IF fail = "build" THEN Outcome(s, RaisedAt(fail))
        ELSE IF fail # "none" THEN Outcome([s EXCEPT !.ky_mat = ky], RaisedAt(fail))
        ELSE Outcome([s EXCEPT !.ky_mat = ky, !.l_mat = l, !.alpha = a,
                               !.ky_mat_inv = kyinv, !.l_mat_inv = linv,
                               !.likelihood = lg.like,
                               !.likelihood_gradient = lg.like_grad],
                     "None")

set_L_alpha(s, fail) ==
    LET built == get_ky_and_hyp(Builder(s.multihyps, s.par), s.hyps, s.hyps_mask,
                                s.training_data, s.training_labels_np)
        ky == built.ky_mat
        lg == get_like_grad_from_mats(ky, built.hyp_mat, s.training_labels_np)
        l == Cholesky(ky)
        linv == Inv(l)
        kyinv == TransposeTimes(linv)
        a == Matmul(kyinv, s.training_labels_np, Dim(ky))
    IN  IF fail # "none"
        THEN Outcome(s, RaisedAt(fail))
        ELSE Outcome([s EXCEPT !.ky_mat = ky, !.l_mat = l, !.alpha = a,
                               !.ky_mat_inv = kyinv, !.l_mat_inv = linv,
                               !.likelihood = lg.like,
                               !.likelihood_gradient = lg.like_grad],
                     "None")

\* get_kernel_vector(x, d_1): the kernel between (x, d_1) and every training
\* component, with the current hyperparameters.
get_kernel_vector(s, x, d_1) ==
    [m \in 1..Size(s.training_data) |->
        Kernel(x, s.training_data[EntryOf(m)], d_1, CompOf(m), s.hyps)]

\* get_ky_mat_update(ky_mat_old, training_data, get_kernel_vector, hyps, ...):
\* keeps the old block and fills the rows and columns of the entries added
\* since with kernel vectors, adding the noise term on the new diagonal.
\* The bound method self.get_kernel_vector is given by the instance gp it is
\* bound to.
get_ky_mat_update(ky_mat_old, td, gp, h) ==
    LET n == Dim(ky_mat_old)
        k_v == [i \in (n + 1)..Size(td) |-> get_kernel_vector(gp, td[EntryOf(i)], CompOf(i))]
    IN  [tag |-> "ndarray",
         rows |-> [i \in 1..Size(td) |-> [j \in 1..Size(td) |->
                     IF i <= n /\ j <= n THEN ky_mat_old.rows[i][j]
                     ELSE IF i = j THEN WithNoise(k_v[i][j])
                     ELSE IF i > n THEN k_v[i][j]
                     ELSE k_v[j][i]]]]

\* update_L_alpha without its assignment to self.ky_mat.
update_L_alpha_keeps_ky(s, fail) ==
    IF s.l_mat = None
    THEN set_L_alpha(s, fail)
    ELSE LET ky == get_ky_mat_update(s.ky_mat, s.training_data, s, s.hyps)
             l == Cholesky(ky)
             linv == Inv(l)
             kyinv == TransposeTimes(linv)
             a == Matmul(kyinv, s.training_labels_np, Dim(ky))
         IN  IF fail \in {"build", "cholesky"}
             THEN Outcome(s, RaisedAt(fail))
             ELSE Outcome([s EXCEPT !.l_mat = l, !.alpha = a,
                                    !.ky_mat_inv = kyinv, !.l_mat_inv = linv],
                          "None")

\* update_L_alpha refreshing the likelihood pair on the incremental path too.
update_L_alpha_refreshes(s, fail) ==
    IF s.l_mat = None
    THEN set_L_alpha(s, fail)
    ELSE LET ky == get_ky_mat_update(s.ky_mat, s.training_data, s, s.hyps)
             l == Cholesky(ky)
             linv == Inv(l)
             kyinv == TransposeTimes(linv)
             a == Matmul(kyinv, s.training_labels_np, Dim(ky))
             lg == get_like_grad_from_mats(ky, None, s.training_labels_np)
         IN  IF fail \in {"build", "cholesky"}
             THEN Outcome(s, RaisedAt(fail))
             ELSE Outcome([s EXCEPT !.ky_mat = ky, !.l_mat = l, !.alpha = a,
                                    !.ky_mat_inv = kyinv, !.l_mat_inv = linv,
                                    !.likelihood = lg.like,
                                    !.likelihood_gradient = lg.like_grad],
                          "None")

\* A 0-dimensional l_mat is not None, so the incremental path is taken; its
\* ky_mat, 0-dimensional too, has no first axis for get_ky_mat_update to extend.
update_L_alpha(s, fail) ==
    IF s.l_mat = None
    THEN set_L_alpha(s, fail)
    ELSE IF s.ky_mat = NoneArray
    THEN Outcome(s, "IndexError")
    ELSE LET ky == get_ky_mat_update(s.ky_mat, s.training_data, s, s.hyps)
             l == Cholesky(ky)
             linv == Inv(l)
             kyinv == TransposeTimes(linv)
             a == Matmul(kyinv, s.training_labels_np, Dim(ky))
         IN  IF fail \in {"build", "cholesky"}
             THEN Outcome(s, RaisedAt(fail))
             ELSE Outcome([s EXCEPT !.ky_mat = ky, !.l_mat = l, !.alpha = a,
                                    !.ky_mat_inv = kyinv, !.l_mat_inv = linv],
                          "None")

\* The test of check_L_alpha and (negated) of predict's assertion.
AlphaStale(s) ==
    \/ s.alpha = None
    \/ 3 * Len(s.training_data) # LenAlpha(s.alpha)

\* len() of a 0-dimensional alpha raises TypeError.
check_L_alpha(s, fail) ==
    IF s.alpha = NoneArray THEN Outcome(s, "TypeError")
    ELSE IF AlphaStale(s) THEN update_L_alpha(s, fail) ELSE Outcome(s, "None")

\* ------------------------------------------------------------- Optimizer
\* What one scipy.optimize.minimize call does: it raises, or it returns a
\* result whose x is some hyperparameter vector.
OptOutcomes == {[raised |-> TRUE, x |-> <<>>]} \cup {[raised |-> FALSE, x |-> h] : h \in Hyps}

\* A field an object does not have: reading it raises AttributeError.
Missing == [tag |-> "missing"]

\* Unary minus.
Neg(v) == [tag |-> "neg", of |-> v]

\* The objective train hands to minimize, with its args.
Objective(s) ==
    [func |-> IF s.multihyps THEN "get_neg_like_grad_mask" ELSE "get_neg_like_grad",
     training_data |-> s.training_data,
     training_labels_np |-> s.training_labels_np]

\* The OptimizeResult of a minimize call that returned: the final point, the
\* objective value there and, for the gradient-based methods only, the
\* gradient there (the simplex method's result carries no jac).
OptimizeResult(objective, method, bnds, x) ==
    [tag |-> "OptimizeResult", method |-> method, bounds |-> bnds, x |-> x,
     fun |-> [tag |-> "fun", of |-> objective, x |-> x],
     jac |-> IF method = "nelder-mead" THEN Missing
             ELSE [tag |-> "jac", of |-> objective, x |-> x]]

\* One minimize call as the log of a train call records it: the step of train
\* that made it (1: lines 209-228, 2: lines 230-248), the method and bounds
\* it was given, whether it raised and the x it returned.
Run(step, method, bnds, o) ==
    [step |-> step, method |-> method, bounds |-> bnds, raised |-> o.raised, x |-> o.x]

\* What a train call did: Outcome plus the minimize calls made and the res
\* local at the point the call ended.
TrainOutcome(s, exc, runs, res) == [self |-> s, exc |-> exc, runs |-> runs, res |-> res]

\* Adopt falling back to the starting hyperparameters when no branch produced
\* a result, instead of raising.
Adopt_default(s, res, runs, fail) ==
    LET rebuilt == set_L_alpha(s, fail)
    IN  IF res = None THEN TrainOutcome(rebuilt.self, rebuilt.exc, runs, res)
        ELSE TrainOutcome([rebuilt.self EXCEPT !.hyps = res.x], rebuilt.exc, runs, res)

\* Lines 249-254: raise if no branch produced a result, else adopt it.
Adopt(s, res, runs, fail) ==
    IF res = None
    THEN TrainOutcome(s, "RuntimeError", runs, res)
    ELSE LET rebuilt == set_L_alpha([s EXCEPT !.hyps = res.x], fail)
             liked == [rebuilt.self EXCEPT !.likelihood = Neg(res.fun)]
         IN  IF rebuilt.exc # "None"
             THEN TrainOutcome(rebuilt.self, rebuilt.exc, runs, res)
             ELSE IF res.jac = Missing
             THEN TrainOutcome(liked, "AttributeError", runs, res)
             ELSE TrainOutcome([liked EXCEPT !.likelihood_gradient = Neg(res.jac)],
                               "None", runs, res)

\* SecondMethod testing algo before custom_bounds.
SecondMethod_algoFirst(a, custom_bounds) ==
    IF a = "BFGS" THEN "BFGS"
    ELSE IF a = "nelder-mead" THEN "nelder-mead"
    ELSE IF custom_bounds # "None" THEN "L-BFGS-B"
    ELSE "None"

\* The branch lines 230-248 take: the custom-bounds run, else the BFGS run,
\* else the nelder-mead run, else none.
SecondMethod(a, custom_bounds) ==
    IF custom_bounds # "None" THEN "L-BFGS-B"
    ELSE IF a = "BFGS" THEN "BFGS"
    ELSE IF a = "nelder-mead" THEN "nelder-mead"
    ELSE "None"

\* Lines 230-248 on the instance and res left by the first step.
SecondStep(s, x_0, custom_bounds, res, runs, o2, fail) ==
    LET method == SecondMethod(s.algo, custom_bounds)
        bnds == IF custom_bounds # "None" THEN custom_bounds ELSE "None"
        runs2 == Append(runs, Run(2, method, bnds, o2))
    IN  IF method = "None" THEN Adopt(s, res, runs, fail)
        ELSE IF o2.raised THEN TrainOutcome(s, "OptimizerError", runs2, res)
        ELSE Adopt(s, OptimizeResult(Objective(s), method, bnds, o2.x), runs2, fail)

\* FirstStep catching the error without switching algo.
FirstStep_keepsAlgo(s, x_0, o1) ==
    LET bnds == IF s.bounds = "None" THEN "default" ELSE s.bounds
        runs == <<Run(1, "L-BFGS-B", bnds, o1)>>
    IN  IF s.algo # "L-BFGS-B" THEN [self |-> s, res |-> None, runs |-> <<>>]
        ELSE IF o1.raised THEN [self |-> s, res |-> None, runs |-> runs]
        ELSE [self |-> s, res |-> OptimizeResult(Objective(s), "L-BFGS-B", bnds, o1.x),
              runs |-> runs]

\* Lines 209-228: the bounded attempt, made when algo is 'L-BFGS-B'; an
\* error in it is caught and switches algo to 'BFGS'.
FirstStep(s, x_0, o1) ==
    LET bnds == IF s.bounds = "None" THEN "default" ELSE s.bounds
        runs == <<Run(1, "L-BFGS-B", bnds, o1)>>
    IN  IF s.algo # "L-BFGS-B" THEN [self |-> s, res |-> None, runs |-> <<>>]
        ELSE IF o1.raised
        THEN [self |-> [s EXCEPT !.algo = "BFGS"], res |-> None, runs |-> runs]
        ELSE [self |-> s, res |-> OptimizeResult(Objective(s), "L-BFGS-B", bnds, o1.x),
              runs |-> runs]

train(s, custom_bounds, o1, o2, fail) ==
    LET x_0 == s.hyps
        first == FirstStep(s, x_0, o1)
    IN  SecondStep(first.self, x_0, custom_bounds, first.res, first.runs, o2, fail)

\* The oracles a train call consults: the outcome of a minimize call is drawn
\* only when the call is made, and a failure point of set_L_alpha only when
\* set_L_alpha is reached.
Unused == [raised |-> FALSE, x |-> <<>>]
Step1Outcomes(s) == IF s.algo = "L-BFGS-B" THEN OptOutcomes ELSE {Unused}
AlgoAfterStep1(s, o1) == FirstStep(s, s.hyps, o1).self.algo
Step2Outcomes(s, custom_bounds, o1) ==
    IF SecondMethod(AlgoAfterStep1(s, o1), custom_bounds) # "None"
    THEN OptOutcomes ELSE {Unused}
RebuildFails(s, custom_bounds, o1, o2) ==
    IF SecondMethod(AlgoAfterStep1(s, o1), custom_bounds) # "None"
    THEN (IF o2.raised THEN {"none"} ELSE SetFails)
    ELSE (IF s.algo = "L-BFGS-B" /\ ~o1.raised THEN SetFails ELSE {"none"})

add_one_env(s, env, force, doTrain, custom_bounds, o1, o2, fail) ==
    LET grown == [s EXCEPT !.training_data = Append(@, env),
                           !.training_labels = Append(@, force)]
        added == [grown EXCEPT !.training_labels_np = force_list_to_np(grown.training_labels)]
    IN  IF doTrain THEN train(added, custom_bounds, o1, o2, fail)
        ELSE TrainOutcome(added, "None", <<>>, None)

\* ------------------------------------------------------------- Predictor
\* get_kernel_vector_par(x, d_1): the results are read back in submission order.
get_kernel_vector_par(s, x, d_1) ==
    [m_index \in 1..Size(s.training_data) |->
        Kernel(x, s.training_data[EntryOf(m_index)], d_1, CompOf(m_index), s.hyps)]

\* en_kern_vec(x): energy/force kernels between x and every training component.
en_kern_vec(s, x) ==
    [m \in 1..Size(s.training_data) |->
        [tag |-> "energy_force_kernel", x_2 |-> s.training_data[EntryOf(m)], x |-> x,
         d_2 |-> CompOf(m), h |-> s.hyps]]

\* What a prediction call did: the exception it raised, or the value it returned.
Returned(exc, ret) == [exc |-> exc, ret |-> ret]

\* The exceptions np.matmul(k_v, alpha) raises on an alpha it cannot use:
\* None is no array operand, and a length other than len(k_v) is a shape mismatch.
MatmulErrors(k_v, a) ==
    IF a = None THEN {"TypeError", "ValueError"}
    ELSE IF a = NoneArray THEN {"ValueError"}
    ELSE IF LenAlpha(a) # Len(k_v) THEN {"ValueError"}
    ELSE {}

\* predict without its assertion on alpha.
predict_unchecked(s, x_t, d) ==
    {Returned("None", [tag |-> "tuple",
                       mean |-> Matmul(get_kernel_vector(s, x_t, d), s.alpha, 1),
                       var |-> None])}

\* The assertion's len(self.alpha) raises TypeError on a 0-dimensional alpha.
predict(s, x_t, d) ==
    LET k_v == IF s.par /\ ~s.per_atom_par THEN get_kernel_vector_par(s, x_t, d)
               ELSE get_kernel_vector(s, x_t, d)
        pred_mean == Matmul(k_v, s.alpha, 1)
        self_kern == Kernel(x_t, x_t, d, d, s.hyps)
        pred_var == [tag |-> "sub", a |-> self_kern,
                     b |-> Matmul(Matmul(k_v, s.ky_mat_inv, Len(k_v)), k_v, 1)]
    IN  IF s.alpha = NoneArray THEN {Returned("TypeError", None)}
        ELSE IF AlphaStale(s) THEN {Returned("AssertionError", None)}
        ELSE {Returned("None", [tag |-> "tuple", mean |-> pred_mean, var |-> pred_var])}

predict_local_energy(s, x_t) ==
    LET k_v == en_kern_vec(s, x_t)
        pred_mean == Matmul(k_v, s.alpha, 1)
    IN  IF MatmulErrors(k_v, s.alpha) # {}
        THEN {Returned(e, None) : e \in MatmulErrors(k_v, s.alpha)}
        ELSE {Returned("None", [tag |-> "scalar", mean |-> pred_mean])}

predict_local_energy_and_var(s, x_t) ==
    LET k_v == en_kern_vec(s, x_t)
        pred_mean == Matmul(k_v, s.alpha, 1)
        v_vec == [tag |-> "solve_triangular", l_mat |-> s.l_mat, k_v |-> k_v]
        self_kern == [tag |-> "energy_kernel", x |-> x_t, h |-> s.hyps]
        pred_var == [tag |-> "sub", a |-> self_kern, b |-> Matmul(v_vec, v_vec, 1)]
    IN  IF MatmulErrors(k_v, s.alpha) # {}
        THEN {Returned(e, None) : e \in MatmulErrors(k_v, s.alpha)}
        ELSE {Returned("None", [tag |-> "tuple", mean |-> pred_mean, var |-> pred_var])}

\* ------------------------------------------------------------- construction
RECURSIVE SeqMax(_)
\* np.max of a non-empty list.
SeqMax(q) ==
    IF Len(q) = 1 THEN q[1]
    ELSE LET m == SeqMax(Tail(q)) IN IF q[1] > m THEN q[1] ELSE m

\* 'key' in hyps_mask.keys()
HasKey(mask, key) == key \in DOMAIN mask

\* GroupCheck accepting a mask entry equal to the group count.
GroupCheck_inclusive(mask, nkey, mkey, expectedLen) ==
    IF ~HasKey(mask, nkey) THEN "None"
    ELSE IF ~(mask[nkey] > 0) THEN "None"
    ELSE IF ~HasKey(mask, mkey) THEN "KeyError"
    ELSE IF mask[mkey] = <<>> THEN "ValueError"
    ELSE IF ~(SeqMax(mask[mkey]) <= mask[nkey]) THEN "AssertionError"
    ELSE IF Len(mask[mkey]) # expectedLen THEN "AssertionError"
    ELSE "None"

\* The mask checks of one interaction order (lines 88-95 and 97-105): the
\* exception they raise, or "None".
GroupCheck(mask, nkey, mkey, expectedLen) ==
    IF ~HasKey(mask, nkey) THEN "None"
    ELSE IF ~(mask[nkey] > 0) THEN "None"
    ELSE IF ~HasKey(mask, mkey) THEN "KeyError"
    ELSE IF mask[mkey] = <<>> THEN "ValueError"
    ELSE IF ~(SeqMax(mask[mkey]) < mask[nkey]) THEN "AssertionError"
    ELSE IF Len(mask[mkey]) # expectedLen THEN "AssertionError"
    ELSE "None"

\* n2b and n3b: the group count when its key is present, else 0.
GroupCount(mask, nkey) == IF HasKey(mask, nkey) THEN mask[nkey] ELSE 0

\* Lines 107-118: at least one group, and the hyperparameter length relations.
LengthCheck(mask, h) ==
    LET n2b == GroupCount(mask, "nbond")
        n3b == GroupCount(mask, "ntriplet")
    IN  IF ~((n2b + n3b) > 0) THEN "AssertionError"
        ELSE IF HasKey(mask, "map")
        THEN IF ~HasKey(mask, "original") THEN "AssertionError"
             ELSE IF (n2b * 2 + n3b * 2 + 1) # Len(mask["original"]) THEN "AssertionError"
             ELSE IF Len(mask["map"]) # Len(h) THEN "AssertionError"
             ELSE "None"
        ELSE IF (n2b * 2 + n3b * 2 + 1) # Len(h) THEN "AssertionError"
        ELSE "None"

\* Lines 78-118: the first exception the mask validation raises, or "None".
MaskCheck(mask, h) ==
    IF ~HasKey(mask, "nspec") THEN "AssertionError"
    ELSE IF ~HasKey(mask, "spec_mask") THEN "AssertionError"
    ELSE LET nspec == mask["nspec"]
             bond == GroupCheck(mask, "nbond", "bond_mask", nspec * nspec)
             triplet == GroupCheck(mask, "ntriplet", "triplet_mask", nspec * nspec * nspec)
         IN  IF bond # "None" THEN bond
             ELSE IF triplet # "None" THEN triplet
             ELSE LengthCheck(mask, h)

\* GaussianProcess.__init__ on its arguments: the instance, or the exception.
init(args) ==
    LET fresh == [hyps |-> args.hyps, algo |-> args.opt_algorithm, bounds |-> "None",
                  multihyps |-> FALSE, hyps_mask |-> None,
                  par |-> args.par, per_atom_par |-> args.per_atom_par,
                  training_data |-> <<>>, training_labels |-> <<>>,
                  training_labels_np |-> <<>>,
                  ky_mat |-> None, l_mat |-> None, alpha |-> None,
                  ky_mat_inv |-> None, l_mat_inv |-> None,
                  likelihood |-> None, likelihood_gradient |-> None]
        mask == args.hyps_mask
    IN  IF args.hyps_mask_is_dict /\ args.multihyps
        THEN IF MaskCheck(mask, args.hyps) # "None"
             THEN Outcome(fresh, MaskCheck(mask, args.hyps))
             ELSE Outcome([fresh EXCEPT !.multihyps = TRUE, !.hyps_mask = mask,
                                        !.bounds = IF HasKey(mask, "bounds")
                                                   THEN mask["bounds"] ELSE "None"],
                          "None")
        ELSE Outcome(fresh, "None")

\* ------------------------------------------------------------- calls
\* The call in progress on the instance, as its caller sees it when it ends:
\* the method, whether the train body ran in it and with which custom_bounds,
\* the minimize calls it made, its res local and the exception it raised
\* ("None" when it returned). Idle between calls.
Call(op, trained, custom_bounds, runs, res, exc) ==
    [op |-> op, train |-> trained, custom_bounds |-> custom_bounds, runs |-> runs,
     res |-> res, exc |-> exc]

SimpleCall(op, exc) == Call(op, FALSE, "None", <<>>, None, exc)

Idle == SimpleCall("idle", "None")

\* Constructor arguments of the instances the method calls are made on.
NoMaskArgs ==
    {[hyps |-> <<1>>, opt_algorithm |-> a, par |-> FALSE, per_atom_par |-> TRUE,
      multihyps |-> FALSE, hyps_mask_is_dict |-> FALSE, hyps_mask |-> None] :
        a \in Algos}

\* The attributes of the instance a constructor call made.
Made(s) ==
    /\ hyps = s.hyps
    /\ algo = s.algo
    /\ bounds = s.bounds
    /\ multihyps = s.multihyps
    /\ hyps_mask = s.hyps_mask
    /\ par = s.par
    /\ per_atom_par = s.per_atom_par
    /\ training_data = s.training_data
    /\ training_labels = s.training_labels
    /\ training_labels_np = s.training_labels_np
    /\ ky_mat = s.ky_mat
    /\ l_mat = s.l_mat
    /\ alpha = s.alpha
    /\ ky_mat_inv = s.ky_mat_inv
    /\ l_mat_inv = s.l_mat_inv
    /\ likelihood = s.likelihood
    /\ likelihood_gradient = s.likelihood_gradient

Init ==
    \E args \in NoMaskArgs :
        /\ init(args).exc = "None"
        /\ Made(init(args).self)
        /\ call = SimpleCall("__init__", "None")

\* The call ends: control is back with the caller, who may make the next one.
Return ==
    /\ call # Idle
    /\ call' = Idle
    /\ UNCHANGED gp_vars

UpdateDb ==
    /\ call = Idle
    /\ \E custom_range \in CustomRanges :
        \E after \in {update_db(Self, StrucForces, custom_range)} :
            /\ Len(after.training_data) <= MaxEntries
            /\ Store(after)
            /\ call' = SimpleCall("update_db", "None")

AddOneEnv ==
    /\ call = Idle
    /\ Len(training_data) < MaxEntries
    /\ \E atom \in Atoms :
        \/ \E done \in {add_one_env(Self, AtomicEnvironment(atom), StrucForces[atom], FALSE,
                                   "None", Unused, Unused, "none")} :
               /\ Store(done.self)
               /\ call' = Call("add_one_env", FALSE, "None", done.runs, done.res,
                               done.exc)
        \/ \E custom_bounds \in CustomBounds, o1 \in Step1Outcomes(Self) :
           \E o2 \in Step2Outcomes(Self, custom_bounds, o1) :
           \E fail \in RebuildFails(Self, custom_bounds, o1, o2) :
               \E done \in {add_one_env(Self, AtomicEnvironment(atom), StrucForces[atom],
                                       TRUE, custom_bounds, o1, o2, fail)} :
                   /\ Store(done.self)
                   /\ call' = Call("add_one_env", TRUE, custom_bounds, done.runs,
                                   done.res, done.exc)

Train ==
    /\ call = Idle
    /\ \E custom_bounds \in CustomBounds, o1 \in Step1Outcomes(Self) :
       \E o2 \in Step2Outcomes(Self, custom_bounds, o1) :
       \E fail \in RebuildFails(Self, custom_bounds, o1, o2) :
           \E done \in {train(Self, custom_bounds, o1, o2, fail)} :
               /\ Store(done.self)
               /\ call' = Call("train", TRUE, custom_bounds, done.runs, done.res,
                               done.exc)

SetLAlpha ==
    /\ call = Idle
    /\ \E fail \in SetFails :
        \E done \in {set_L_alpha(Self, fail)} :
            /\ Store(done.self)
            /\ call' = SimpleCall("set_L_alpha", done.exc)

UpdateLAlpha ==
    /\ call = Idle
    /\ \E fail \in (IF l_mat = None THEN SetFails ELSE UpdateFails) :
        \E done \in {update_L_alpha(Self, fail)} :
            /\ Store(done.self)
            /\ call' = SimpleCall("update_L_alpha", done.exc)

CheckLAlpha ==
    /\ call = Idle
    /\ \E fail \in (IF ~AlphaStale(Self) THEN {"none"}
                    ELSE IF l_mat = None THEN SetFails ELSE UpdateFails) :
        \E done \in {check_L_alpha(Self, fail)} :
            /\ Store(done.self)
            /\ call' = SimpleCall("check_L_alpha", done.exc)

\* The query environments and components of the prediction calls.
Queries == {<<AtomicEnvironment(atom), d>> : atom \in Atoms, d \in {1, 2, 3}}

Predict ==
    /\ call = Idle
    /\ \E e \in UNION {{r.exc : r \in predict(Self, q[1], q[2])} : q \in Queries} :
        /\ call' = SimpleCall("predict", e)
        /\ UNCHANGED gp_vars

PredictLocalEnergy ==
    /\ call = Idle
    /\ \E e \in UNION {{r.exc : r \in predict_local_energy(Self, q[1])} : q \in Queries} :
        /\ call' = SimpleCall("predict_local_energy", e)
        /\ UNCHANGED gp_vars

PredictLocalEnergyAndVar ==
    /\ call = Idle
    /\ \E e \in UNION {{r.exc : r \in predict_local_energy_and_var(Self, q[1])} :
                          q \in Queries} :
        /\ call' = SimpleCall("predict_local_energy_and_var", e)
        /\ UNCHANGED gp_vars

Next ==
    \/ Return
    \/ UpdateDb
    \/ AddOneEnv
    \/ Train
    \/ SetLAlpha
    \/ UpdateLAlpha
    \/ CheckLAlpha
    \/ Predict
    \/ PredictLocalEnergy
    \/ PredictLocalEnergyAndVar

Spec == Init /\ [][Next]_vars

\* ------------------------------------------------------------- construction with a mask
\* Every key a hyps_mask argument may hold.
MaskKeys == {"nspec", "spec_mask", "nbond", "bond_mask", "ntriplet", "triplet_mask",
             "map", "original", "bounds"}

\* The key sets of the hyps_mask arguments: all keys, and some keys missing.
KeySets ==
    {MaskKeys \ missing :
        missing \in {{}, {"nspec"}, {"spec_mask"}, {"nbond"}, {"ntriplet"}, {"bond_mask"},
                     {"triplet_mask"}, {"original"}, {"map", "original"}, {"bounds"},
                     {"map", "original", "bounds"}}}

\* The values the keys of the hyps_mask arguments take. A system has at
\* least one species.
NSpecs == {1, 2}
NBonds == {0, 1, 2}
NTriplets == {0, 1}
BondMasks == {<<>>, <<0>>, <<1>>, <<0, 0, 0, 0>>, <<0, 0, 0, 1>>, <<0, 1, 0>>}
TripletMasks == {<<0>>, <<1>>, <<0, 0>>, <<0, 0, 0, 0, 0, 0, 0, 0>>,
                 <<0, 0, 0, 0, 0, 0, 0, 1>>}
Maps == {<<0>>, <<0, 1, 2>>}
Originals == {<<1, 1, 1>>, <<1, 1, 1, 1, 1>>}
HypsGiven == {<<1>>, <<1, 1, 1>>, <<1, 1, 1, 1, 1>>}

\* Constructor arguments with a dict as hyps_mask.
MaskArgs ==
    {[hyps |-> h, opt_algorithm |-> "L-BFGS-B", par |-> FALSE, per_atom_par |-> TRUE,
      multihyps |-> mh, hyps_mask_is_dict |-> TRUE,
      hyps_mask |-> [k \in keys |->
                       [nspec |-> ns, spec_mask |-> <<0, 0>>, nbond |-> nb, bond_mask |-> bm,
                        ntriplet |-> nt, triplet_mask |-> tm, map |-> mp, original |-> orig,
                        bounds |-> "mask"][k]]] :
        h \in HypsGiven, mh \in BOOLEAN, keys \in KeySets, ns \in NSpecs, nb \in NBonds,
        bm \in BondMasks, nt \in NTriplets, tm \in TripletMasks, mp \in Maps,
        orig \in Originals}

\* A constructor call about to be made, and one that has ended.
New(args) == [op |-> "new", args |-> args]
Constructed(args, exc) == [op |-> "__init__", args |-> args, exc |-> exc]

\* No instance yet: a constructor call with a mask is about to be made.
InitNew ==
    /\ call \in {New(args) : args \in MaskArgs}
    /\ hyps = None /\ algo = None /\ bounds = None /\ multihyps = None
    /\ hyps_mask = None /\ par = None /\ per_atom_par = None
    /\ training_data = None /\ training_labels = None /\ training_labels_np = None
    /\ ky_mat = None /\ l_mat = None /\ alpha = None /\ ky_mat_inv = None
    /\ l_mat_inv = None /\ likelihood = None /\ likelihood_gradient = None

Construct ==
    /\ call.op = "new"
    /\ \E made \in {init(call.args)} :
        /\ Store(made.self)
        /\ call' = Constructed(call.args, made.exc)

NextInit == Construct

SpecInit == InitNew /\ [][NextInit]_vars

\* ------------------------------------------------------------- parallel kernel vector
\* get_kernel_vector_par step by step: the calling process submits one task
\* per training component to the pool, closes and joins it, and reads the
\* results back; the pool's workers complete the submitted tasks in any order
\* while it does.

\* Constructor arguments of the instances the parallel vector is asked of.
ParArgs ==
    {[hyps |-> h, opt_algorithm |-> "L-BFGS-B", par |-> TRUE, per_atom_par |-> FALSE,
      multihyps |-> FALSE, hyps_mask_is_dict |-> FALSE, hyps_mask |-> None] :
        h \in Hyps}

\* The atoms whose environments were added, one add_one_env call each.
AtomLists == UNION {[1..n -> Atoms] : n \in 0..MaxEntries}

RECURSIVE Populated(_, _)
Populated(s, atoms) ==
    IF atoms = <<>> THEN s
    ELSE Populated(add_one_env(s, AtomicEnvironment(Head(atoms)), StrucForces[Head(atoms)],
                               FALSE, "None", Unused, Unused, "none").self,
                   Tail(atoms))

\* The args tuple of the task submitted for the 1-based index m_index: x_2 and
\* d_2 are taken from the training set by the index, the rest from the
\* instance; the multihyps branch adds the cutoff function and the mask.
TaskArgs(s, x, d_1, m_index) ==
    [x |-> x, x_2 |-> s.training_data[((m_index - 1) \div 3) + 1], d_1 |-> d_1,
     d_2 |-> Ds[((m_index - 1) % 3) + 1], hyps |-> s.hyps,
     cutoff_func |-> IF s.multihyps THEN "quadratic_cutoff" ELSE "default",
     hyps_mask |-> IF s.multihyps THEN s.hyps_mask ELSE None]

\* pool.apply_async(self.kernel, args): the AsyncResult handle, not yet ready.
AsyncResult(args) == [args |-> args, ready |-> FALSE, value |-> None]

\* A worker running a task: self.kernel(*args).
RunTask(args) == Kernel(args.x, args.x_2, args.d_1, args.d_2, args.hyps)

\* A completing task handing its value to the handle of the first task still
\* waiting, whichever task that is.
Deliver_firstFree(results, i, v) ==
    LET free == CHOOSE j \in DOMAIN results :
                    /\ ~results[j].ready
                    /\ \A k \in DOMAIN results : ~results[k].ready => j <= k
    IN  [results EXCEPT ![free].ready = TRUE, ![free].value = v]

\* A completing task hands its value to its own AsyncResult handle.
Deliver(results, i, v) ==
    [results EXCEPT ![i].ready = TRUE, ![i].value = v]

\* results[m_index].get()
Get(results, m_index) == results[m_index].value

\* The get_kernel_vector_par call in progress: its arguments, where the
\* calling process is, the handles in submission order, the tasks submitted
\* and not yet completed, whether some task completed before one submitted
\* earlier, and the vector returned.
ParCall(x, d_1, pc, results, pending, overtaken, k_v) ==
    [op |-> "get_kernel_vector_par", x |-> x, d_1 |-> d_1, pc |-> pc,
     results |-> results, pending |-> pending, overtaken |-> overtaken,
     k_v |-> k_v, exc |-> "None"]

InPar(pcs) == call.op = "get_kernel_vector_par" /\ call.pc \in pcs

InitPar ==
    /\ \E args \in ParArgs, atoms \in AtomLists :
        Made(Populated(init(args).self, atoms))
    /\ call = Idle

\* The call is made: results = [] and the pool is created.
EnterPar ==
    /\ call = Idle
    /\ \E q \in Queries :
        call' = ParCall(q[1], q[2], "submit", <<>>, {}, FALSE, None)
    /\ UNCHANGED gp_vars

\* One pass of the submission loop.
Submit ==
    /\ InPar({"submit"})
    /\ Len(call.results) < Size(training_data)
    /\ LET m_index == Len(call.results) + 1
       IN  call' = [call EXCEPT
                      !.results = Append(@, AsyncResult(TaskArgs(Self, call.x, call.d_1,
                                                                 m_index))),
                      !.pending = @ \cup {m_index}]
    /\ UNCHANGED gp_vars

\* pool.close(), after the last pass.
Close ==
    /\ InPar({"submit"})
    /\ Len(call.results) = Size(training_data)
    /\ call' = [call EXCEPT !.pc = "closed"]
    /\ UNCHANGED gp_vars

\* A worker completes one of the submitted tasks.
Complete ==
    /\ InPar({"submit", "closed"})
    /\ \E i \in call.pending :
        call' = [call EXCEPT
                   !.results = Deliver(@, i, RunTask(call.results[i].args)),
                   !.pending = @ \ {i},
                   !.overtaken = @ \/ (\E j \in call.pending : j < i)]
    /\ UNCHANGED gp_vars

\* pool.join() returns: the workers have exited, every submitted task done.
Join ==
    /\ InPar({"closed"})
    /\ call.pending = {}
    /\ call' = [call EXCEPT !.pc = "joined"]
    /\ UNCHANGED gp_vars

\* The read-back loop and the return of k_v; get() waits for a handle that is
\* not ready.
Collect ==
    /\ InPar({"joined"})
    /\ \A m_index \in DOMAIN call.results : call.results[m_index].ready
    /\ call' = [call EXCEPT
                  !.k_v = [m_index \in 1..Size(training_data) |->
                             Get(call.results, m_index)],
                  !.pc = "returned"]
    /\ UNCHANGED gp_vars

\* Control is back with the caller.
ReturnPar ==
    /\ InPar({"returned"})
    /\ call' = Idle
    /\ UNCHANGED gp_vars

NextPar ==
    \/ EnterPar
    \/ Submit
    \/ Close
    \/ Complete
    \/ Join
    \/ Collect
    \/ ReturnPar

SpecPar == InitPar /\ [][NextPar]_vars

\* ------------------------------------------------------------- serialization
\* env.as_dict() and AtomicEnvironment.from_dict(env).
EnvAsDict(env) == [tag |-> "env_dict", atom |-> env.env]
EnvFromDict(d) == AtomicEnvironment(d.atom)

\* as_dict(): a deep copy of the attributes, the environments as dictionaries.
as_dict(s) ==
    [s EXCEPT !.training_data = [i \in DOMAIN s.training_data |->
                                    EnvAsDict(s.training_data[i])]]

\* from_dict(dictionary): a new instance from the constructor (per_atom_par at
\* its default), then the cache wrapped in np.array, the training set, the
\* likelihood pair, and training_labels_np recomputed from the labels.
from_dict(dictionary) ==
    LET made == init([hyps |-> dictionary.hyps,
                      opt_algorithm |-> dictionary.algo,
                      par |-> dictionary.par, per_atom_par |-> TRUE,
                      multihyps |-> dictionary.multihyps,
                      hyps_mask_is_dict |-> dictionary.hyps_mask # None,
                      hyps_mask |-> dictionary.hyps_mask])
        new_gp == made.self
    IN  IF made.exc # "None" THEN made
        ELSE Outcome(
            [new_gp EXCEPT
                !.l_mat = NpArray(dictionary.l_mat),
                !.l_mat_inv = NpArray(dictionary.l_mat_inv),
                !.alpha = NpArray(dictionary.alpha),
                !.ky_mat = NpArray(dictionary.ky_mat),
                !.ky_mat_inv = NpArray(dictionary.ky_mat_inv),
                !.training_data = [i \in DOMAIN dictionary.training_data |->
                                      EnvFromDict(dictionary.training_data[i])],
                !.training_labels = dictionary.training_labels,
                !.likelihood = dictionary.likelihood,
                !.likelihood_gradient = dictionary.likelihood_gradient,
                !.training_labels_np = force_list_to_np(dictionary.training_labels)],
            "None")

\* An as_dict call that has returned out_dict.
Dumped(out_dict) == [op |-> "as_dict", exc |-> "None", out_dict |-> out_dict]

AsDict ==
    /\ call = Idle
    /\ call' = Dumped(as_dict(Self))
    /\ UNCHANGED gp_vars

\* from_dict on the dictionary just returned; the instance it makes is the
\* one the following calls are made on.
FromDict ==
    /\ call.op = "as_dict"
    /\ \E done \in {from_dict(call.out_dict)} :
        /\ IF done.exc = "None" THEN Store(done.self) ELSE UNCHANGED gp_vars
        /\ call' = SimpleCall("from_dict", done.exc)

NextDict ==
    \/ Return
    \/ UpdateDb
    \/ SetLAlpha
    \/ UpdateLAlpha
    \/ Predict
    \/ AsDict
    \/ FromDict

SpecDict == Init /\ [][NextDict]_vars

\* ------------------------------------------------------------- properties
\* The five cached quantities, and with them the likelihood pair.
cache == <<ky_mat, l_mat, l_mat_inv, ky_mat_inv, alpha>>
likelihood_pair == <<likelihood, likelihood_gradient>>

\* C1: a predict call made while alpha is None or 3 * len(training_data) is
\* not len(alpha) raises AssertionError and leaves ky_mat, l_mat, l_mat_inv,
\* ky_mat_inv and alpha as they were: it makes no implicit rebuild.
C1_PredictAssertsAlpha ==
    [][(call'.op = "predict" /\ AlphaStale(Self))
        => (call'.exc = "AssertionError" /\ UNCHANGED cache)]_vars

\* A predict call has failed on an alpha that a grown training set made stale.
C1_Witness ==
    /\ call.op = "predict"
    /\ call.exc = "AssertionError"
    /\ alpha # None
    /\ 3 * Len(training_data) > LenAlpha(alpha)

\* C2: a set_L_alpha call either returns with ky_mat, l_mat, l_mat_inv,
\* ky_mat_inv, alpha, likelihood and likelihood_gradient all replaced by the
\* values computed from the current hyps and training set, or raises and
\* leaves all seven as they were.
C2_SetLAlphaAllOrNothing ==
    [][call'.op = "set_L_alpha"
        => IF call'.exc = "None"
           THEN /\ ky_mat' = KyMat(hyps, training_data)
                /\ l_mat' = Cholesky(ky_mat')
                /\ l_mat_inv' = Inv(l_mat')
                /\ ky_mat_inv' = TransposeTimes(l_mat_inv')
                /\ alpha' = Matmul(ky_mat_inv', training_labels_np, 3 * Len(training_data))
                /\ likelihood' # None /\ likelihood'.tag = "like"
                /\ likelihood'.ky_mat = ky_mat'
                /\ likelihood'.labels = training_labels_np
                /\ likelihood_gradient' # None /\ likelihood_gradient'.tag = "like_grad"
                /\ likelihood_gradient'.hyp_mat.hyps = hyps
                /\ likelihood_gradient'.hyp_mat.training_data = training_data
           ELSE UNCHANGED <<cache, likelihood_pair>>]_vars

\* A set_L_alpha call has raised in the Cholesky factorization on an instance
\* whose cache was built for a smaller training set.
C2_Witness ==
    /\ call.op = "set_L_alpha"
    /\ call.exc = "LinAlgError"
    /\ ky_mat # None
    /\ Dim(ky_mat) < 3 * Len(training_data)

\* The prediction methods.
PredictOps == {"predict", "predict_local_energy", "predict_local_energy_and_var"}

\* C8: every prediction call made while alpha is None or of a length other
\* than 3 * len(training_data) fails with the assertion's error.
C8_EveryPredictionAsserts ==
    (call.op \in PredictOps /\ AlphaStale(Self)) => call.exc = "AssertionError"

\* C10: a train call made with an algo that is none of the three methods and
\* without custom bounds makes no minimize call, raises RuntimeError and
\* leaves hyps, algo, the cache and the likelihood pair as they were.
C10_NoBranchRaises ==
    [][(call'.op = "train" /\ algo \notin {"L-BFGS-B", "BFGS", "nelder-mead"}
        /\ call'.custom_bounds = "None")
        => (/\ call'.exc = "RuntimeError"
            /\ call'.runs = <<>>
            /\ UNCHANGED <<hyps, algo, cache, likelihood_pair>>)]_vars

\* A train call has raised RuntimeError on an instance with an unrecognized
\* algo whose cache had been built before.
C10_Witness ==
    /\ call.op = "train"
    /\ call.exc = "RuntimeError"
    /\ algo = "other"
    /\ alpha # None

\* A train body in which the bounded attempt of lines 219-224 raised.
Fallback(c) == c.train /\ c.runs # <<>> /\ c.runs[1].step = 1 /\ c.runs[1].raised

\* The exceptions set_L_alpha raises.
SetErrors == {RaisedAt(f) : f \in SetFails \ {"none"}}

\* C3 as stated: a train body whose bounded attempt raised, made without
\* custom bounds, switches algo to 'BFGS', runs BFGS and completes without
\* raising.
C3_FallbackCompletes ==
    (Fallback(call) /\ call.custom_bounds = "None")
        => (/\ algo = "BFGS"
            /\ Len(call.runs) = 2 /\ call.runs[2].method = "BFGS"
            /\ call.exc = "None")

\* C3 as amended: a train body whose bounded attempt raised catches that
\* error and switches algo to 'BFGS'; without custom bounds it then runs BFGS
\* and raises only what that run or the following set_L_alpha raises; and
\* once algo is 'BFGS' no step changes it.
C3_FallbackToBFGS ==
    [][/\ algo = "BFGS" => algo' = "BFGS"
       /\ Fallback(call')
            => /\ algo' = "BFGS"
               /\ call'.custom_bounds = "None"
                    => /\ Len(call'.runs) = 2
                       /\ call'.runs[2].method = "BFGS"
                       /\ call'.runs[2].bounds = "None"
                       /\ IF call'.runs[2].raised THEN call'.exc = "OptimizerError"
                          ELSE call'.exc \in {"None"} \cup SetErrors]_vars

\* A train call whose bounded attempt raised has returned normally, with
\* the hyperparameters the BFGS run found.
C3_Witness ==
    /\ call.op = "train"
    /\ Fallback(call)
    /\ call.custom_bounds = "None"
    /\ call.exc = "None"
    /\ algo = "BFGS"
    /\ hyps = call.runs[2].x

\* C4: in a train body given custom_bounds no BFGS and no nelder-mead run is
\* made, the last minimize call is an L-BFGS-B run with exactly those bounds,
\* and when it returns its result is the one adopted as hyps.
C4_CustomBoundsOverride ==
    (call.train /\ call.custom_bounds # "None")
        => /\ \A i \in DOMAIN call.runs : call.runs[i].method \notin {"BFGS", "nelder-mead"}
           /\ LET last == call.runs[Len(call.runs)]
              IN  /\ last.step = 2
                  /\ last.method = "L-BFGS-B"
                  /\ last.bounds = call.custom_bounds
                  /\ ~last.raised
                       => /\ call.res.method = "L-BFGS-B"
                          /\ call.res.bounds = call.custom_bounds
                          /\ call.res.x = last.x
                          /\ hyps = last.x

\* A train call given custom bounds has returned after a first step that
\* succeeded with other hyperparameters than the custom-bounds run found.
C4_Witness ==
    /\ call.op = "train"
    /\ call.custom_bounds # "None"
    /\ call.exc = "None"
    /\ Len(call.runs) = 2
    /\ ~call.runs[1].raised
    /\ call.runs[1].x # call.runs[2].x
    /\ hyps = call.runs[2].x

\* C5, for calls whose set_L_alpha did not raise: a train body whose last
\* minimize call returned a result returns normally with hyps that result's
\* x, the cache rebuilt for the training set with those hyps, and the
\* likelihood pair the negated fun and jac of the result.
C5_TrainAdoptsResult ==
    (/\ call.train
     /\ call.runs # <<>>
     /\ ~call.runs[Len(call.runs)].raised
     /\ call.exc \notin SetErrors)
        => /\ call.exc = "None"
           /\ hyps = call.res.x
           /\ alpha # None
           /\ LenAlpha(alpha) = 3 * Len(training_data)
           /\ ky_mat = KyMat(hyps, training_data)
           /\ likelihood = Neg(call.res.fun)
           /\ likelihood_gradient = Neg(call.res.jac)

\* C6: an update_L_alpha call that returns, made on a cache whose ky_mat is
\* the one set_L_alpha builds with the current hyps on the first N entries,
\* leaves the ky_mat, of dimension 3 * len(training_data), that set_L_alpha
\* builds on the whole training set, and l_mat, l_mat_inv, ky_mat_inv and
\* alpha computed from it.
C6_UpdateEqualsRebuild ==
    [][(/\ call'.op = "update_L_alpha"
        /\ call'.exc = "None"
        /\ l_mat # None
        /\ ky_mat = KyMat(hyps, SubSeq(training_data, 1, Dim(ky_mat) \div 3)))
        => (/\ ky_mat' = KyMat(hyps, training_data)
            /\ Dim(ky_mat') = 3 * Len(training_data)
            /\ l_mat' = Cholesky(ky_mat')
            /\ l_mat_inv' = Inv(l_mat')
            /\ ky_mat_inv' = TransposeTimes(l_mat_inv')
            /\ alpha' = Matmul(ky_mat_inv', training_labels_np, 3 * Len(training_data)))]_vars

\* The likelihood is the one set_L_alpha computed from a smaller ky_mat than
\* the cached one: the cache has been extended since.
ExtendedSinceRebuild ==
    /\ ky_mat # None
    /\ likelihood # None
    /\ likelihood.tag = "like"
    /\ Dim(likelihood.ky_mat) < Dim(ky_mat)

\* An update_L_alpha call has extended a cache built on one entry to two
\* entries with different environments.
C6_Witness ==
    /\ call.op = "update_L_alpha"
    /\ call.exc = "None"
    /\ ExtendedSinceRebuild
    /\ Dim(likelihood.ky_mat) = 3
    /\ Len(training_data) = 2
    /\ training_data[1] # training_data[2]
    /\ ky_mat = KyMat(hyps, training_data)

\* C7 as stated: no update_L_alpha call changes likelihood or
\* likelihood_gradient.
C7_UpdateKeepsLikelihood ==
    [][call'.op = "update_L_alpha" => UNCHANGED likelihood_pair]_vars

\* C7 as amended: an update_L_alpha call made with l_mat not None leaves
\* likelihood and likelihood_gradient as they were; they change only in a
\* set_L_alpha call, in a train body, or in the set_L_alpha that
\* update_L_alpha (alone or through check_L_alpha) makes when l_mat is None.
C7_IncrementalKeepsLikelihood ==
    [][/\ (call'.op = "update_L_alpha" /\ l_mat # None) => UNCHANGED likelihood_pair
       /\ likelihood_pair' # likelihood_pair
            => \/ call'.op = "set_L_alpha"
               \/ call'.train
               \/ call'.op \in {"update_L_alpha", "check_L_alpha"} /\ l_mat = None]_vars

\* An update_L_alpha call has returned leaving the likelihood of an earlier,
\* smaller covariance matrix.
C7_Witness ==
    /\ call.op = "update_L_alpha"
    /\ call.exc = "None"
    /\ ExtendedSinceRebuild
    /\ likelihood.ky_mat # ky_mat

\* a is the beginning of b.
IsPrefix(a, b) == Len(a) <= Len(b) /\ SubSeq(b, 1, Len(a)) = a

\* One label per entry, three numbers per label, and training_labels_np the
\* labels laid end to end in insertion order.
LabelsConsistent ==
    /\ Len(training_labels) = Len(training_data)
    /\ Len(training_labels_np) = 3 * Len(training_data)
    /\ \A i \in 1..Len(training_labels) : \A k \in 1..3 :
         training_labels_np[3 * (i - 1) + k] = training_labels[i][k]

\* C12: in every reachable state len(training_labels) == len(training_data),
\* len(training_labels_np) == 3 * len(training_data) and training_labels_np
\* is the row-major concatenation of training_labels in insertion order; and
\* no step removes or reorders an entry: the training data and labels before
\* a step are the beginning of those after it.
C12_LabelsInStep ==
    /\ []LabelsConsistent
    /\ [][/\ IsPrefix(training_data, training_data')
          /\ IsPrefix(training_labels, training_labels')]_vars

\* An update_db call with a custom_range has appended a second entry to a
\* training set that already had a cache.
C12_Witness ==
    /\ call.op = "update_db"
    /\ alpha # None
    /\ training_data = <<AtomicEnvironment(2), AtomicEnvironment(1)>>
    /\ training_labels = <<StrucForces[2], StrucForces[1]>>
    /\ training_labels_np = <<21, 22, 23, 11, 12, 13>>

\* C13: in every reachable state with a cache, ky_mat is the covariance
\* matrix of the current hyps over the entries it covers, and l_mat,
\* l_mat_inv, ky_mat_inv and alpha are the ones computed from that ky_mat: no
\* operation leaves hyps replaced while the cache reflects the previous hyps.
C13_CacheBuiltWithHyps ==
    ky_mat # None
        => /\ Dim(ky_mat) <= 3 * Len(training_data)
           /\ ky_mat = KyMat(hyps, SubSeq(training_data, 1, Dim(ky_mat) \div 3))
           /\ l_mat = Cholesky(ky_mat)
           /\ l_mat_inv = Inv(l_mat)
           /\ ky_mat_inv = TransposeTimes(l_mat_inv)
           /\ alpha # None
           /\ alpha.a = ky_mat_inv

\* ------------------------------------------------------------- properties of construction
\* The conditions on a mask and the hyperparameters given with it.
GroupAccepted(mask, nkey, mkey, expectedLen) ==
    GroupCount(mask, nkey) > 0
        => /\ HasKey(mask, mkey)
           /\ Len(mask[mkey]) = expectedLen
           /\ \A i \in DOMAIN mask[mkey] : mask[mkey][i] < mask[nkey]

MaskAccepted(mask, h) ==
    /\ HasKey(mask, "nspec")
    /\ HasKey(mask, "spec_mask")
    /\ GroupAccepted(mask, "nbond", "bond_mask", mask["nspec"] * mask["nspec"])
    /\ GroupAccepted(mask, "ntriplet", "triplet_mask",
                     mask["nspec"] * mask["nspec"] * mask["nspec"])
    /\ GroupCount(mask, "nbond") + GroupCount(mask, "ntriplet") > 0
    /\ LET n == 2 * (GroupCount(mask, "nbond") + GroupCount(mask, "ntriplet")) + 1
       IN  IF HasKey(mask, "map")
           THEN /\ HasKey(mask, "original")
                /\ n = Len(mask["original"])
                /\ Len(mask["map"]) = Len(h)
           ELSE n = Len(h)

\* C9 as stated: a constructor call given a mask succeeds exactly when the
\* mask and hyps meet the conditions.
C9_ConstructIffValid ==
    call.op = "__init__"
        => (call.exc = "None" <=> MaskAccepted(call.args.hyps_mask, call.args.hyps))

\* C9 as amended: a constructor call given a mask and multihyps=True succeeds
\* exactly when the mask and hyps meet the conditions; given multihyps=False
\* it ignores the mask and succeeds.
C9_ConstructIffValidWhenMultihyps ==
    call.op = "__init__"
        => IF call.args.multihyps
           THEN /\ call.exc = "None" <=> MaskAccepted(call.args.hyps_mask, call.args.hyps)
                /\ call.exc = "None" => (multihyps = TRUE /\ hyps_mask = call.args.hyps_mask)
           ELSE call.exc = "None" /\ multihyps = FALSE /\ hyps_mask = None

\* The masks of the example: nspec=2, nbond=1, ntriplet=0 and three hyps.
ExampleMask(c, bond_mask) ==
    /\ c.args.multihyps
    /\ c.args.hyps = <<1, 1, 1>>
    /\ DOMAIN c.args.hyps_mask = MaskKeys \ {"map", "original"}
    /\ c.args.hyps_mask["nspec"] = 2
    /\ c.args.hyps_mask["nbond"] = 1
    /\ c.args.hyps_mask["ntriplet"] = 0
    /\ c.args.hyps_mask["bond_mask"] = bond_mask

\* The constructor has accepted the example's mask with bond_mask=[0,0,0,0].
C9_Witness ==
    /\ call.op = "__init__"
    /\ ExampleMask(call, <<0, 0, 0, 0>>)
    /\ call.exc = "None"
    /\ multihyps = TRUE

NeverRebuilt(d) ==
    /\ d.ky_mat = None
    /\ d.l_mat = None
    /\ d.l_mat_inv = None
    /\ d.ky_mat_inv = None
    /\ d.alpha = None

\* C14: from_dict applied to the as_dict dictionary of a model whose five
\* cached fields are null makes a model whose five cached fields are null.
C14_RoundTripKeepsNull ==
    [][(call'.op = "from_dict" /\ NeverRebuilt(call.out_dict))
        => (/\ ky_mat' = None
            /\ l_mat' = None
            /\ l_mat_inv' = None
            /\ ky_mat_inv' = None
            /\ alpha' = None)]_vars

====
